---- MODULE Spec2Model ----
(***************************************************************************)
(* A model of vumi/transports/smpp/clientserver/client.py: the SMPP ESME   *)
(* client (EsmeTransceiver, EsmeTransmitter, EsmeReceiver).                *)
(*                                                                         *)
(* The module holds several specifications over one set of variables:      *)
(*   SeqSpec     the sequence-number allocator over the shared store       *)
(*               (get_next_seq, _reset_seq_counter)                        *)
(*   FramerSpec  dataReceived and pop_data on the bytes of the stream, and  *)
(*               the dispatcher taking the frames                          *)
(*   SubmitSpec  submit_sm, the unacked ledger and handle_submit_sm_resp    *)
(*               over the session's store connection                       *)
(*   Spec        one session: connect, bind, bind timeout, link-check      *)
(*               loop, the PDU queue and its dispatcher, transport loss    *)
(*   DeliverSpec    handle_deliver_sm on one deliver_sm PDU                *)
(*   MultipartSpec  submit_sm of one message, split by                     *)
(*                  _submit_multipart_sar or _submit_multipart_udh         *)
(*   UssdSpec       update_ussd_pdu on one submit_sm PDU                   *)
(*   RawFramerSpec  dataReceived and pop_data on arbitrary bytes           *)
(* Each specification leaves the variables of the others unchanged.        *)
(***************************************************************************)
EXTENDS Integers, Sequences, FiniteSets, TLC

(***************************************************************************)
(* Bounds of the model.                                                    *)
(***************************************************************************)
\* number of sessions allocating sequence numbers against the same store
NumAllocs == 2
\* number of get_next_seq calls started in one behaviour
MaxCalls == 3
\* number of PDUs the SMSC sends to the session in one behaviour
MaxPdus == 3
\* number of link-check ticks after the first tick of each loop
MaxTicks == 1
\* number of PDUs in the inbound byte stream
MaxFrames == 2
\* number of submit_sm calls the application makes in one behaviour
MaxSubmits == 2
\* the messages split go up to this number of full segments (and one byte more)
MaxSegments == 3
\* number of frames the pop loop of one stream is followed for
MaxPops == 4

(***************************************************************************)
(* 32-bit and wider store integers.  A store integer is written as the     *)
(* pair <<hi, lo>> of its value divided by 2^16 and its low 16 bits, so    *)
(* that 0xFFFF0000 = <<65535, 0>>, 0xFFFFFFFF = <<65535, 65535>> and the   *)
(* next value, 0x100000000 = <<65536, 0>>, are all kept at full width (the *)
(* store's INCR works on 64-bit integers and Python's int does not wrap).  *)
(***************************************************************************)
Num(hi, lo) == <<hi, lo>>

NumLt(a, b) == a[1] < b[1] \/ (a[1] = b[1] /\ a[2] < b[2])

NumGeq(a, b) == ~NumLt(a, b)

NumSucc(a) == IF a[2] = 65535 THEN <<a[1] + 1, 0>> ELSE <<a[1], a[2] + 1>>

\* get_next_seq, line 76, and _reset_seq_counter, line 112: 0xFFFF0000
WRAP_AT == Num(65535, 0)

\* get_next_seq's docstring, line 68: the last valid sequence number, 0xFFFFFFFF
MAX_SEQ == Num(65535, 65535)

\* the first valid sequence number, 0x00000001 (line 68)
MIN_SEQ == Num(0, 1)

VARIABLES
    \* ---- the shared store (redis) ----
    counter,    \* key smpp_last_sequence_number: <<>> when absent, else <<n>>
    wrapLock,   \* key smpp_last_sequence_number_wrap: "absent", "no_ttl", "ttl"
    \* ---- one get_next_seq call per allocator at a time ----
    apc,        \* the store call the allocator makes next, or "idle"
    aseq,       \* seq, the value its incr returned
    alocked,    \* locked, the result of its setnx
    ncalls,     \* get_next_seq calls started so far
    \* ---- history ----
    seqLog,     \* the incrs (with their values) and deletions of the counter key, in order
    retVals,    \* the values get_next_seq has returned
    \* ---- one session (an EsmeTransceiver, EsmeTransmitter or EsmeReceiver) ----
    role,       \* the class of the session: "TRX", "TX" or "RX"
    esme,       \* the session object's fields and its coroutines' positions
    deadline,   \* smpp_bind_timeout after schedule_lose_connection: "unset", "pending", "passed"
    npdus,      \* PDUs received so far
    nticks,     \* link-check ticks after the first so far
    \* ---- the framer of one session, on bytes ----
    pdus,       \* the PDUs whose bytes the SMSC sends, in order
    stream,     \* the bytes of them the transport has not delivered yet
    datastream, \* self.datastream
    fpc,        \* dataReceived: "idle", or "loop" inside its while loop
    frames,     \* every frame dataReceived has put on the queue, in order
    fqueue,     \* self._pdu_queue: frames put and not yet taken
    fhandled,   \* the frames passed to handle_data, in order
    fdsp,       \* _process_pdu_queue: "get", "handling" or "dead"
    cut,        \* a notification has ended inside a PDU
    \* ---- submit_sm and the unacked ledger of one session ----
    unacked,    \* the store's list "unacked", head first
    pipe,       \* the store commands the session has issued, not yet executed
    subs,       \* the submit_sm calls: position, sequence number, return value
    submitted,  \* the sequence numbers of the submit_sm PDUs sent, in order
    answered,   \* the sequence numbers the SMSC has sent a submit_sm_resp for
    rqueue,     \* self._pdu_queue: the submit_sm_resp frames not yet taken
    rpc,        \* the dispatcher: "get", or the call handle_submit_sm_resp awaits
    rcur,       \* the sequence number of the submit_sm_resp being handled
    resps,      \* the sequence numbers passed to the submit_sm_resp callback
    early,      \* a submit_sm_resp was taken while the lpush of its submit was pending
    \* ---- the content of PDUs: one deliver_sm, one long submit_sm, one USSD submit ----
    dlv,        \* handle_deliver_sm on one PDU: its position, what it sent and called
    mp,         \* submit_sm of one message: its segments, the PDUs sent, what it returned
    ussd        \* update_ussd_pdu on one PDU: its arguments and the parameters it set

seqVars == <<counter, wrapLock, apc, aseq, alocked, ncalls, seqLog, retVals>>

sessVars == <<role, esme, deadline, npdus, nticks>>

framerVars == <<pdus, stream, datastream, fpc, frames, fqueue, fhandled, fdsp,
                cut>>

submitVars == <<unacked, pipe, subs, submitted, answered, rqueue, rpc, rcur,
                resps, early>>

pduVars == <<dlv, mp, ussd>>

vars == <<seqVars, sessVars, framerVars, submitVars, pduVars>>

Allocs == 1..NumAllocs

(***************************************************************************)
(* The store's operations on the two keys, as the code uses them.          *)
(***************************************************************************)
\* redis.incr: an absent key counts as 0; the key holds the new value
RedisIncr(c) == IF Len(c) = 0 THEN <<MIN_SEQ>> ELSE <<NumSucc(c[1])>>

\* line 119 with the counter set to 1 instead of deleted
CounterSetToOne == <<MIN_SEQ>>

\* line 119: redis.delete('smpp_last_sequence_number'): the key is absent
DeletedCounter == <<>>

\* line 112: (yield redis.get(...)) < 0xFFFF0000; get of an absent key is
\* None, and None < int is True in Python 2
GetBelowWrap(c) == Len(c) = 0 \/ NumLt(c[1], WRAP_AT)

\* line 104: ttl(...) < 0: the key has no expiry, or does not exist
TtlNegative(l) == l # "ttl"

IncrEntry(v) == [op |-> "incr", val |-> v]

DelEntry == [op |-> "del", val |-> Num(0, 0)]

(***************************************************************************)
(* get_next_seq and _reset_seq_counter, one action per store call; each    *)
(* action runs the code from that call's result to the next store call.    *)
(***************************************************************************)
\* returnValue(seq), line 82
ReturnSeq(a, v) ==
    /\ retVals' = retVals \cup {v}
    /\ apc' = [apc EXCEPT ![a] = "idle"]

\* lines 74-82: incr, then the reset attempt or the return
GetNextSeqIncr(a) ==
    /\ apc[a] = "idle"
    /\ ncalls < MaxCalls
    /\ ncalls' = ncalls + 1
    /\ counter' = RedisIncr(counter)
    /\ aseq' = [aseq EXCEPT ![a] = counter'[1]]
    /\ seqLog' = Append(seqLog, IncrEntry(counter'[1]))
    /\ IF NumGeq(counter'[1], WRAP_AT)
          THEN /\ apc' = [apc EXCEPT ![a] = "setnx"]
               /\ UNCHANGED retVals
          ELSE ReturnSeq(a, counter'[1])
    /\ UNCHANGED <<wrapLock, alocked, sessVars, framerVars, submitVars, pduVars>>

\* line 99: locked = setnx(lock, 1)
ResetSetnx(a) ==
    /\ apc[a] = "setnx"
    /\ alocked' = [alocked EXCEPT ![a] = (wrapLock = "absent")]
    /\ wrapLock' = IF wrapLock = "absent" THEN "no_ttl" ELSE wrapLock
    /\ apc' = [apc EXCEPT ![a] = "ttl"]
    /\ UNCHANGED <<counter, aseq, ncalls, seqLog, retVals, sessVars, framerVars, submitVars, pduVars>>

\* lines 108-112 without the check of locked: always on to the get
AfterTtlBlockUnchecked(a) ==
    /\ apc' = [apc EXCEPT ![a] = "get"]
    /\ UNCHANGED retVals

\* lines 108-112 after the ttl/expire block: return without the lock, else get
AfterTtlBlock(a) ==
    IF ~alocked[a]
       THEN ReturnSeq(a, aseq[a])
       ELSE /\ apc' = [apc EXCEPT ![a] = "get"]
            /\ UNCHANGED retVals

\* line 104: ttl(lock) < 0
ResetTtl(a) ==
    /\ apc[a] = "ttl"
    /\ IF TtlNegative(wrapLock)
          THEN /\ apc' = [apc EXCEPT ![a] = "expire"]
               /\ UNCHANGED retVals
          ELSE AfterTtlBlock(a)
    /\ UNCHANGED <<counter, wrapLock, aseq, alocked, ncalls, seqLog, sessVars, framerVars, submitVars, pduVars>>

\* line 106: expire(lock, 10); no effect on an absent key
ResetExpire(a) ==
    /\ apc[a] = "expire"
    /\ wrapLock' = IF wrapLock = "absent" THEN "absent" ELSE "ttl"
    /\ AfterTtlBlock(a)
    /\ UNCHANGED <<counter, aseq, alocked, ncalls, seqLog, sessVars, framerVars, submitVars, pduVars>>

\* line 112: get(counter) < 0xFFFF0000
ResetGet(a) ==
    /\ apc[a] = "get"
    /\ IF GetBelowWrap(counter)
          THEN ReturnSeq(a, aseq[a])
          ELSE /\ apc' = [apc EXCEPT ![a] = "delete"]
               /\ UNCHANGED retVals
    /\ UNCHANGED <<counter, wrapLock, aseq, alocked, ncalls, seqLog, sessVars, framerVars, submitVars, pduVars>>

\* line 119: delete(counter), then get_next_seq returns seq
ResetDelete(a) ==
    /\ apc[a] = "delete"
    /\ counter' = DeletedCounter
    /\ seqLog' = Append(seqLog, DelEntry)
    /\ ReturnSeq(a, aseq[a])
    /\ UNCHANGED <<wrapLock, aseq, alocked, ncalls, sessVars, framerVars, submitVars, pduVars>>

\* the store drops the lock key when its 10 s expiry (line 106) runs out
LockExpires ==
    /\ wrapLock = "ttl"
    /\ wrapLock' = "absent"
    /\ UNCHANGED <<counter, apc, aseq, alocked, ncalls, seqLog, retVals, sessVars, framerVars, submitVars, pduVars>>

(***************************************************************************)
(* The session.  esme is the session object: its fields (state,            *)
(* _lose_conn, lc_enquire, _pdu_queue), the transport it is connected to,  *)
(* the positions of its suspended coroutines and what it has sent and      *)
(* called back.                                                            *)
(*   transport   "none" before connectionMade, "connected", "closing"      *)
(*               after transport.loseConnection(), "lost" after            *)
(*               connectionLost                                            *)
(*   lose_conn   self._lose_conn: "None", "armed" (a pending delayed       *)
(*               call), "called" (a delayed call that has run)             *)
(*   lc_enquire  the LoopingCall in self.lc_enquire: "unset", "running",   *)
(*               "stopped"                                                 *)
(*   orphans     running LoopingCalls that self.lc_enquire no longer names *)
(*   ticks       enquire_link calls suspended in get_next_seq              *)
(*   cmpc        connectionMade: "idle", "alloc" (suspended in             *)
(*               get_next_seq), "done"                                     *)
(*   queue       self._pdu_queue                                           *)
(*   dsp         _process_pdu_queue: "get" (suspended in _pdu_queue.get),  *)
(*               "handling" (suspended inside a handler), "dead" (ended by *)
(*               an exception)                                             *)
(*   cur, hpc    the PDU being handled and the call its handler awaits     *)
(*   active      handlers entered and not yet left                         *)
(*   raised      an exception is propagating (within one step only)        *)
(***************************************************************************)
Roles == {"TRX", "TX", "RX"}

\* lines 33, 456, 468: CONNECTED_STATE
CONNECTED_STATE(r) ==
    CASE r = "TRX" -> "BOUND_TRX"
      [] r = "TX" -> "BOUND_TX"
      [] r = "RX" -> "BOUND_RX"

\* lines 433: the states in which enquire_link sends
BoundStates == {"BOUND_TX", "BOUND_RX", "BOUND_TRX"}

Pdu(cmd, status) == [cmd |-> cmd, status |-> status]

NoPdu == Pdu("none", "none")

BindResps == {"bind_transceiver_resp", "bind_transmitter_resp", "bind_receiver_resp"}

\* the PDUs the SMSC sends in this model
InboundPdus ==
    {Pdu(c, "ESME_ROK") : c \in BindResps}
    \cup {Pdu("bind_transceiver_resp", "ESME_RBINDFAIL"),
          Pdu("unbind", "ESME_ROK"),
          Pdu("enquire_link", "ESME_ROK"),
          Pdu("submit_sm_resp", "ESME_ROK"),
          Pdu("data_sm", "ESME_ROK")}

\* lines 137-138: getattr(self, 'handle_%s' % command_id, not found): the
\* handle_* methods of the session's class, inherited ones included
HandlerNames(r) ==
    {"unbind", "bind_transceiver_resp", "submit_sm_resp", "deliver_sm",
     "enquire_link", "enquire_link_resp"}
    \cup (IF r = "TX" THEN {"bind_transmitter_resp"} ELSE {})
    \cup (IF r = "RX" THEN {"bind_receiver_resp"} ELSE {})

\* lines 227, 461, 473: the state each bind response handler sets
BoundStateOf(cmd) ==
    CASE cmd = "bind_transceiver_resp" -> "BOUND_TRX"
      [] cmd = "bind_transmitter_resp" -> "BOUND_TX"
      [] cmd = "bind_receiver_resp" -> "BOUND_RX"

\* lines 37-62: __init__
EsmeInit ==
    [state |-> "CLOSED", transport |-> "none", lose_conn |-> "None",
     lc_enquire |-> "unset", orphans |-> 0, ticks |-> 0, cmpc |-> "idle",
     queue |-> <<>>, dsp |-> "get", cur |-> NoPdu, hpc |-> "done",
     active |-> 0, raised |-> FALSE, sent |-> <<>>, connects |-> 0,
     disconnects |-> 0]

\* lines 190-196: send_pdu: transport.write
SendPdu(s, cmd) == [s EXCEPT !.sent = Append(@, cmd)]

\* transport.loseConnection(): the transport stops reading and closes
LoseConnection(s) ==
    IF s.transport = "connected" THEN [s EXCEPT !.transport = "closing"] ELSE s

\* lines 213-216: cancel_drop_connection_call; cancel() of a delayed call
\* that has already run raises AlreadyCalled
cancel_drop_connection_call(s) ==
    CASE s.lose_conn = "None" -> s
      [] s.lose_conn = "armed" -> [s EXCEPT !.lose_conn = "None"]
      [] s.lose_conn = "called" -> [s EXCEPT !.raised = TRUE]

\* lines 200-201: a new LoopingCall replaces self.lc_enquire and is
\* started; start() calls enquire_link at once, which in a BOUND_* state
\* suspends in get_next_seq (lines 433-434)
StartLoop(s) ==
    [s EXCEPT !.orphans = @ + (IF s.lc_enquire = "running" THEN 1 ELSE 0),
              !.lc_enquire = "running",
              !.ticks = @ + (IF s.state \in BoundStates THEN 1 ELSE 0)]

\* lines 198-203: start_enquire_link, up to its await of the connect callback
start_enquire_link(s) ==
    LET s1 == cancel_drop_connection_call(StartLoop(s))
    IN  IF s1.raised THEN s1
        ELSE [s1 EXCEPT !.connects = @ + 1, !.hpc = "connect"]

\* lines 205-211: stop_enquire_link
stop_enquire_link(s) ==
    IF s.lc_enquire = "running" THEN [s EXCEPT !.lc_enquire = "stopped"] ELSE s

\* lines 224-229, 458-463, 470-475: handle_bind_*_resp
handle_bind_resp(s, pdu) ==
    IF pdu.status = "ESME_ROK"
       THEN start_enquire_link([s EXCEPT !.state = BoundStateOf(pdu.cmd)])
       ELSE s

\* lines 218-222: handle_unbind
handle_unbind(s) == LoseConnection(SendPdu(s, "unbind_resp"))

\* lines 285-292: handle_enquire_link
handle_enquire_link(s, pdu) ==
    IF pdu.status = "ESME_ROK" THEN SendPdu(s, "enquire_link_resp") ELSE s

\* lines 231-233: handle_submit_sm_resp, up to the lpop of pop_unacked
handle_submit_sm_resp(s) == [s EXCEPT !.hpc = "lpop"]

\* lines 130-139: handle_data: the handler of the PDU's command, run up to
\* its first suspension (hpc), its end (hpc = "done") or its exception
handle_data(r, s, pdu) ==
    CASE pdu.cmd \notin HandlerNames(r) -> s
      [] pdu.cmd \in BindResps /\ pdu.cmd \in HandlerNames(r) -> handle_bind_resp(s, pdu)
      [] pdu.cmd = "unbind" -> handle_unbind(s)
      [] pdu.cmd = "enquire_link" -> handle_enquire_link(s, pdu)
      [] pdu.cmd = "submit_sm_resp" -> handle_submit_sm_resp(s)
      [] OTHER -> s

\* a handler has ended: by an exception, which ends _process_pdu_queue too
\* (nothing in lines 141-146 catches it), or normally
HandlerEnded(s) ==
    IF s.raised
       THEN [s EXCEPT !.raised = FALSE, !.dsp = "dead", !.active = @ - 1,
                      !.hpc = "done", !.cur = NoPdu]
       ELSE [s EXCEPT !.dsp = "get", !.active = @ - 1, !.hpc = "done",
                      !.cur = NoPdu]

\* line 145: yield self.handle_data(data)
EnterHandler(r, s, pdu) ==
    LET s1 == handle_data(r, [s EXCEPT !.active = @ + 1, !.cur = pdu,
                                      !.hpc = "done"], pdu)
    IN  IF s1.raised \/ s1.hpc = "done"
           THEN HandlerEnded(s1)
           ELSE [s1 EXCEPT !.dsp = "handling"]

\* lines 141-146: _process_pdu_queue resumed with its get pending or
\* answered: it handles queued frames one after the other until a handler
\* suspends or raises, or the queue is empty
RECURSIVE process_pdu_queue(_, _)
process_pdu_queue(r, s) ==
    IF s.queue = <<>>
       THEN s
       ELSE LET s1 == EnterHandler(r, [s EXCEPT !.queue = Tail(@)], Head(s.queue))
            IN  IF s1.dsp = "get" THEN process_pdu_queue(r, s1) ELSE s1

\* the dispatcher is handling the frame at the head of no handler
DispatcherAlwaysReady(s) == TRUE

\* lines 143, 146: the dispatcher is suspended in self._pdu_queue.get(), so
\* that a put hands it the frame at once
DispatcherWaiting(s) == s.dsp = "get"

\* lines 183-188, for one frame: put, which resumes a waiting dispatcher
dataReceived(r, s, pdu) ==
    LET s1 == [s EXCEPT !.queue = Append(@, pdu)]
    IN  IF DispatcherWaiting(s) THEN process_pdu_queue(r, s1) ELSE s1

\* lines 166-174: lose_unbound_connection(required_state)
lose_unbound_connection(s, required_state) ==
    IF s.state # required_state
       THEN LoseConnection([s EXCEPT !.lose_conn = "None"])
       ELSE [s EXCEPT !.lose_conn = "called"]

\* lines 176-181: connectionLost; an exception of cancel_drop_connection_call
\* leaves it before the disconnect callback
connectionLost(s) ==
    LET s1 == cancel_drop_connection_call(
                  stop_enquire_link([s EXCEPT !.state = "CLOSED"]))
    IN  IF s1.raised
           THEN [s1 EXCEPT !.raised = FALSE]
           ELSE [s1 EXCEPT !.disconnects = @ + 1]

(***************************************************************************)
(* The session's steps.                                                    *)
(***************************************************************************)
\* lines 151-155: connectionMade up to its await of get_next_seq
ConnectionMade ==
    /\ esme.transport = "none"
    /\ esme' = [esme EXCEPT !.transport = "connected", !.state = "OPEN",
                            !.cmpc = "alloc"]
    /\ UNCHANGED <<role, deadline, npdus, nticks, seqVars, framerVars, submitVars, pduVars>>

\* lines 155-159: get_next_seq returns (its incr is below 0xFFFF0000); the
\* bind PDU is sent and the bind timeout armed
ConnectionMadeResume ==
    /\ esme.cmpc = "alloc"
    /\ counter' = RedisIncr(counter)
    /\ esme' = [SendPdu(esme, "bind") EXCEPT !.lose_conn = "armed",
                                             !.cmpc = "done"]
    /\ deadline' = "pending"
    /\ UNCHANGED <<role, npdus, nticks, wrapLock, apc, aseq, alocked, ncalls,
                   seqLog, retVals, framerVars, submitVars, pduVars>>

\* smpp_bind_timeout has passed since schedule_lose_connection: the delayed
\* call runs lose_unbound_connection, unless it was cancelled
BindTimeoutElapses ==
    /\ deadline = "pending"
    /\ deadline' = "passed"
    /\ esme' = IF esme.lose_conn = "armed"
                  THEN lose_unbound_connection(esme, CONNECTED_STATE(role))
                  ELSE esme
    /\ UNCHANGED <<role, npdus, nticks, seqVars, framerVars, submitVars, pduVars>>

\* the transport tells the session it is gone: after loseConnection, or
\* because the peer or the network closed it
ConnectionLost ==
    /\ esme.transport \in {"connected", "closing"}
    /\ esme' = connectionLost([esme EXCEPT !.transport = "lost"])
    /\ UNCHANGED <<role, deadline, npdus, nticks, seqVars, framerVars, submitVars, pduVars>>

\* the transport delivers the bytes of one PDU
DataReceived ==
    /\ esme.transport = "connected"
    /\ npdus < MaxPdus
    /\ npdus' = npdus + 1
    /\ \E pdu \in InboundPdus : esme' = dataReceived(role, esme, pdu)
    /\ UNCHANGED <<role, deadline, nticks, seqVars, framerVars, submitVars, pduVars>>

\* the call a suspended handler awaits returns: lines 203 and 229 (connect
\* callback), 310-311 (lpop, llen), 236-240 (submit_sm_resp callback); when
\* the handler ends, the dispatcher goes on with the queue
HandlerResume ==
    /\ esme.dsp = "handling"
    /\ esme' = CASE esme.hpc = "lpop" -> [esme EXCEPT !.hpc = "llen"]
                 [] esme.hpc = "llen" -> [esme EXCEPT !.hpc = "callback"]
                 [] OTHER -> process_pdu_queue(role, HandlerEnded(esme))
    /\ UNCHANGED <<role, deadline, npdus, nticks, seqVars, framerVars, submitVars, pduVars>>

\* the call a suspended handler awaits fails (a store error, an error in
\* the callback): the exception leaves the handler
HandlerRaises ==
    /\ esme.dsp = "handling"
    /\ esme' = HandlerEnded([esme EXCEPT !.raised = TRUE])
    /\ UNCHANGED <<role, deadline, npdus, nticks, seqVars, framerVars, submitVars, pduVars>>

RunningLoops(s) == s.orphans + (IF s.lc_enquire = "running" THEN 1 ELSE 0)

\* a running LoopingCall calls enquire_link again (lines 431-439): in a
\* BOUND_* state it suspends in get_next_seq, otherwise it returns 0
LoopTick ==
    /\ esme.ticks < RunningLoops(esme)
    /\ nticks < MaxTicks
    /\ nticks' = nticks + 1
    /\ esme' = IF esme.state \in BoundStates
                  THEN [esme EXCEPT !.ticks = @ + 1]
                  ELSE esme
    /\ UNCHANGED <<role, deadline, npdus, seqVars, framerVars, submitVars, pduVars>>

\* lines 434-438: get_next_seq returns to enquire_link, which sends
EnquireLinkResume ==
    /\ esme.ticks > 0
    /\ counter' = RedisIncr(counter)
    /\ esme' = [SendPdu(esme, "enquire_link") EXCEPT !.ticks = @ - 1]
    /\ UNCHANGED <<role, deadline, npdus, nticks, wrapLock, apc, aseq,
                   alocked, ncalls, seqLog, retVals, framerVars, submitVars, pduVars>>

(***************************************************************************)
(* The framer, on bytes.  A byte is a number in 0..255 and a PDU a         *)
(* sequence of bytes: command_length, command_id, command_status and       *)
(* sequence_number, four bytes each, big-endian, then the body.            *)
(***************************************************************************)
\* int(binascii.b2a_hex(b), 16) for four bytes (line 124); the first byte of
\* the streams of this model is below 128, so the value fits TLC's integers
BE32(b) == ((b[1] * 256 + b[2]) * 256 + b[3]) * 256 + b[4]

\* lines 121-128 with the buffer cut after the 16 header bytes
PopHeaderOnly(ds) ==
    IF Len(ds) >= 16
       THEN LET command_length == BE32(SubSeq(ds, 1, 4))
            IN  IF Len(ds) >= command_length
                   THEN [data |-> <<SubSeq(ds, 1, command_length)>>,
                         datastream |-> SubSeq(ds, 17, Len(ds))]
                   ELSE [data |-> <<>>, datastream |-> ds]
       ELSE [data |-> <<>>, datastream |-> ds]

\* lines 121-128: pop_data: data is <<>> for None and <<frame>> for a
\* frame; datastream is the buffer it leaves
pop_data(ds) ==
    IF Len(ds) >= 16
       THEN LET command_length == BE32(SubSeq(ds, 1, 4))
            IN  IF Len(ds) >= command_length
                   THEN [data |-> <<SubSeq(ds, 1, command_length)>>,
                         datastream |-> SubSeq(ds, command_length + 1, Len(ds))]
                   ELSE [data |-> <<>>, datastream |-> ds]
       ELSE [data |-> <<>>, datastream |-> ds]

\* an enquire_link PDU (command_id 0x00000015, no body) with sequence number n
EnquireLinkBytes(n) == <<0, 0, 0, 16, 0, 0, 0, 21, 0, 0, 0, 0, 0, 0, 0, n>>

\* a submit_sm_resp PDU (command_id 0x80000004) with an empty message_id
SubmitSmRespBytes(n) == <<0, 0, 0, 17, 128, 0, 0, 4, 0, 0, 0, 0, 0, 0, 0, n, 0>>

\* the well-formed PDUs the SMSC sends in this model
WellFormedPdus ==
    {EnquireLinkBytes(1), EnquireLinkBytes(2), SubmitSmRespBytes(1),
     SubmitSmRespBytes(2)}

RECURSIVE Concat(_)
Concat(ss) == IF ss = <<>> THEN <<>> ELSE Head(ss) \o Concat(Tail(ss))

\* lines 132-139: the handler of a submit_sm_resp frame awaits the store
\* (line 233); the handler of an enquire_link frame does not suspend
HandlerSuspends(data) == SubSeq(data, 5, 8) = <<128, 0, 0, 4>>

\* lines 141-146: the dispatcher takes queued frames one after the other
\* until a handler suspends or the queue is empty: the frames it has
\* handled, the queue it leaves and where it is left
RECURSIVE TakeFrames(_, _)
TakeFrames(q, h) ==
    IF q = <<>>
       THEN [fqueue |-> q, fhandled |-> h, fdsp |-> "get"]
       ELSE IF HandlerSuspends(Head(q))
               THEN [fqueue |-> Tail(q), fhandled |-> Append(h, Head(q)),
                     fdsp |-> "handling"]
               ELSE TakeFrames(Tail(q), Append(h, Head(q)))

\* line 184: the transport delivers the next k bytes of the stream
FeedData(k) ==
    /\ fpc = "idle"
    /\ k \in 1..Len(stream)
    /\ datastream' = datastream \o SubSeq(stream, 1, k)
    /\ stream' = SubSeq(stream, k + 1, Len(stream))
    /\ fpc' = "loop"
    /\ UNCHANGED <<pdus, frames, fqueue, fhandled, fdsp, cut, seqVars, sessVars, submitVars, pduVars>>

\* lines 185-188: one pop_data of dataReceived and, if it gave a frame, the
\* put, which hands the frame to a waiting dispatcher
PopStep ==
    /\ fpc = "loop"
    /\ LET r == pop_data(datastream)
       IN  IF r.data = <<>>
              THEN /\ fpc' = "idle"
                   /\ cut' = (cut \/ datastream # <<>>)
                   /\ UNCHANGED <<datastream, frames, fqueue, fhandled, fdsp>>
              ELSE /\ fpc' = "loop"
                   /\ UNCHANGED cut
                   /\ datastream' = r.datastream
                   /\ frames' = Append(frames, r.data[1])
                   /\ IF fdsp = "get"
                         THEN LET t == TakeFrames(Append(fqueue, r.data[1]), fhandled)
                              IN  /\ fqueue' = t.fqueue
                                  /\ fhandled' = t.fhandled
                                  /\ fdsp' = t.fdsp
                         ELSE /\ fqueue' = Append(fqueue, r.data[1])
                              /\ UNCHANGED <<fhandled, fdsp>>
    /\ UNCHANGED <<pdus, stream, seqVars, sessVars, submitVars, pduVars>>

\* the call the handler awaits returns and the handler ends
FrameHandlerResume ==
    /\ fpc = "idle"
    /\ fdsp = "handling"
    /\ LET t == TakeFrames(fqueue, fhandled)
       IN  /\ fqueue' = t.fqueue
           /\ fhandled' = t.fhandled
           /\ fdsp' = t.fdsp
    /\ UNCHANGED <<pdus, stream, datastream, fpc, frames, cut, seqVars, sessVars, submitVars, pduVars>>

\* the call the handler awaits fails: the exception ends _process_pdu_queue
FrameHandlerRaises ==
    /\ fpc = "idle"
    /\ fdsp = "handling"
    /\ fdsp' = "dead"
    /\ UNCHANGED <<pdus, stream, datastream, fpc, frames, fqueue, fhandled,
                   cut, seqVars, sessVars, submitVars, pduVars>>

\* the streams of at most n well-formed PDUs
RECURSIVE PduLists(_)
PduLists(n) ==
    IF n = 0 THEN {<<>>}
    ELSE LET shorter == PduLists(n - 1)
         IN  shorter \cup {Append(l, p) : l \in shorter, p \in WellFormedPdus}

(***************************************************************************)
(* submit_sm and the unacked ledger.  The session issues its store         *)
(* commands on one connection: a command is issued when the code calls     *)
(* self.redis.<command>(...), the store executes the commands of the       *)
(* connection in the order issued, and the reply of a command resumes the  *)
(* coroutine that awaits it.  pipe holds the commands issued and not yet   *)
(* executed; each names who awaits its reply: a submit_sm call c, or 0 for *)
(* the handler of the dispatcher.                                          *)
(***************************************************************************)
Submits == 1..MaxSubmits

\* what a call returns: returnValue(0) (line 318) is the integer 0, and
\* returnValue([sequence_number]) (line 345) a list
IntValue(n) == [type |-> "int", int |-> n, list |-> <<>>]

ListValue(l) == [type |-> "list", int |-> 0, list |-> l]

NoValue == [type |-> "none", int |-> 0, list |-> <<>>]

Cmd(op, who) == [op |-> op, who |-> who]

NewSub == [pc |-> "new", seq |-> Num(0, 0), ret |-> NoValue]

\* line 310 with nothing removed from the list
LpopNothing(l) == l

\* redis.lpop("unacked") (line 310): removes the head; nothing on an empty list
RedisLpop(l) == IF l = <<>> THEN l ELSE Tail(l)

\* redis.lpush("unacked", v) (line 305): prepends
RedisLpush(l, v) == <<v>> \o l

\* lines 315, 443: the states in which submit_sm and query_sm send
SendStates == {"BOUND_TX", "BOUND_TRX"}

\* lines 313-318 and 344-349: submit_sm of a message of at most 140 bytes:
\* in a wrong state it returns 0; otherwise _submit_sm awaits get_next_seq
SubmitSm(c) ==
    /\ subs[c].pc = "new"
    /\ IF esme.state \notin SendStates
          THEN /\ subs' = [subs EXCEPT ![c].pc = "done", ![c].ret = IntValue(0)]
               /\ UNCHANGED pipe
          ELSE /\ subs' = [subs EXCEPT ![c].pc = "incr"]
               /\ pipe' = Append(pipe, Cmd("incr", c))
    /\ UNCHANGED <<unacked, submitted, answered, rqueue, rpc, rcur, resps,
                   early, seqVars, sessVars, framerVars, pduVars>>

\* lines 349-369: get_next_seq returns sequence_number (its incr is below
\* 0xFFFF0000); the PDU is sent and push_unacked issues its lpush
ExecSubmitIncr ==
    /\ pipe # <<>> /\ Head(pipe).op = "incr"
    /\ LET c == Head(pipe).who
       IN  /\ counter' = RedisIncr(counter)
           /\ subs' = [subs EXCEPT ![c].pc = "lpush", ![c].seq = counter'[1]]
           /\ submitted' = Append(submitted, counter'[1])
           /\ esme' = SendPdu(esme, "submit_sm")
           /\ pipe' = Append(Tail(pipe), Cmd("lpush", c))
    /\ UNCHANGED <<unacked, answered, rqueue, rpc, rcur, resps, early, role,
                   deadline, npdus, nticks, wrapLock, apc, aseq, alocked,
                   ncalls, seqLog, retVals, framerVars, pduVars>>

\* lines 305-306: the lpush of push_unacked is executed; push_unacked goes
\* on to get_unacked_count
ExecLpush ==
    /\ pipe # <<>> /\ Head(pipe).op = "lpush"
    /\ LET c == Head(pipe).who
       IN  /\ unacked' = RedisLpush(unacked, subs[c].seq)
           /\ subs' = [subs EXCEPT ![c].pc = "llen"]
           /\ pipe' = Append(Tail(pipe), Cmd("llen", c))
    /\ UNCHANGED <<submitted, answered, rqueue, rpc, rcur, resps, early,
                   seqVars, sessVars, framerVars, pduVars>>

\* lines 306, 370 and 345: the llen of push_unacked is answered; _submit_sm
\* returns sequence_number and submit_sm the list of it
ExecSubmitLlen ==
    /\ pipe # <<>> /\ Head(pipe).op = "llen" /\ Head(pipe).who # 0
    /\ LET c == Head(pipe).who
       IN  subs' = [subs EXCEPT ![c].pc = "done",
                                ![c].ret = ListValue(<<subs[c].seq>>)]
    /\ pipe' = Tail(pipe)
    /\ UNCHANGED <<unacked, submitted, answered, rqueue, rpc, rcur, resps,
                   early, seqVars, sessVars, framerVars, pduVars>>

PushPending(q) == \E c \in Submits : subs[c].seq = q /\ subs[c].pc = "lpush"

\* lines 183-188 and 231-233: the SMSC answers a submit_sm it was sent; the
\* frame is queued, and a waiting dispatcher enters handle_submit_sm_resp,
\* whose pop_unacked issues its lpop
SubmitSmRespReceived ==
    /\ esme.transport = "connected"
    /\ \E i \in 1..Len(submitted) :
          LET q == submitted[i]
          IN  /\ q \notin answered
              /\ answered' = answered \cup {q}
              /\ IF rpc = "get"
                    THEN /\ rpc' = "lpop"
                         /\ rcur' = q
                         /\ pipe' = Append(pipe, Cmd("lpop", 0))
                         /\ early' = (early \/ PushPending(q))
                         /\ UNCHANGED rqueue
                    ELSE /\ rqueue' = Append(rqueue, q)
                         /\ UNCHANGED <<rpc, rcur, pipe, early>>
    /\ UNCHANGED <<unacked, subs, submitted, resps, seqVars, sessVars,
                   framerVars, pduVars>>

\* lines 310-311: the lpop of pop_unacked is executed; pop_unacked goes on
\* to get_unacked_count
ExecLpop ==
    /\ pipe # <<>> /\ Head(pipe).op = "lpop"
    /\ unacked' = RedisLpop(unacked)
    /\ rpc' = "llen"
    /\ pipe' = Append(Tail(pipe), Cmd("llen", 0))
    /\ UNCHANGED <<subs, submitted, answered, rqueue, rcur, resps, early,
                   seqVars, sessVars, framerVars, pduVars>>

\* lines 311 and 234-240: the llen of pop_unacked is answered; the handler
\* calls the submit_sm_resp callback and awaits it
ExecHandlerLlen ==
    /\ pipe # <<>> /\ Head(pipe).op = "llen" /\ Head(pipe).who = 0
    /\ pipe' = Tail(pipe)
    /\ rpc' = "callback"
    /\ resps' = Append(resps, rcur)
    /\ UNCHANGED <<unacked, subs, submitted, answered, rqueue, rcur, early,
                   seqVars, sessVars, framerVars, pduVars>>

\* lines 145-146: the callback returns, the handler ends and the dispatcher
\* takes the next frame, if there is one
SubmitSmRespHandled ==
    /\ rpc = "callback"
    /\ IF rqueue = <<>>
          THEN /\ rpc' = "get"
               /\ UNCHANGED <<rqueue, rcur, pipe, early>>
          ELSE /\ rpc' = "lpop"
               /\ rcur' = Head(rqueue)
               /\ rqueue' = Tail(rqueue)
               /\ pipe' = Append(pipe, Cmd("lpop", 0))
               /\ early' = (early \/ PushPending(Head(rqueue)))
    /\ UNCHANGED <<unacked, subs, submitted, answered, resps, seqVars,
                   sessVars, framerVars, pduVars>>

\* the sessions submit_sm is called on: class, state and transport as the
\* session's steps leave them
SessionsAtSubmit ==
    { <<"TRX", "CLOSED", "none">>, <<"TRX", "OPEN", "connected">>,
      <<"TRX", "BOUND_TRX", "connected">>, <<"TX", "BOUND_TX", "connected">>,
      <<"RX", "BOUND_RX", "connected">>, <<"TRX", "CLOSED", "lost">> }

(***************************************************************************)
(* handle_deliver_sm on one inbound deliver_sm.  dlv holds the PDU's       *)
(* command_status and sequence_number, the handler's position (pc: the     *)
(* processor call it awaits, "queued" before it is entered, "done" or      *)
(* "raised" after it has ended), what the handler has done in order (log:  *)
(* the PDUs it sent and the processor methods it called), the results the  *)
(* processor calls gave (results, one per call) and the session state the  *)
(* handler found when it was entered (at).                                 *)
(***************************************************************************)
\* line 244 with the states of line 433
DeliverStatesAnyBound == {"BOUND_TX", "BOUND_RX", "BOUND_TRX"}

\* line 244: the states in which a deliver_sm is accepted
DeliverStates == {"BOUND_RX", "BOUND_TRX"}

Sent(cmd, n) == [op |-> "send", name |-> cmd, seq |-> n]

Called(name) == [op |-> "call", name |-> name, seq |-> 0]

NewDeliver(status, n) ==
    [status |-> status, seq |-> n, pc |-> "queued", log |-> <<>>,
     results |-> <<>>, at |-> "none"]

\* the deliver_sm PDUs the SMSC sends in this model
DeliverPdus ==
    {NewDeliver(st, n) : st \in {"ESME_ROK", "ESME_RSYSERR"}, n \in {1, 2}}

\* the sessions a deliver_sm frame is handled on: class, state and transport
\* (a frame queued before the loss of the transport is handled after it; a
\* transmitter is in BOUND_TRX after a bind_transceiver_resp)
SessionsAtDeliver ==
    { <<"TRX", "OPEN", "connected">>, <<"TRX", "BOUND_TRX", "connected">>,
      <<"TX", "BOUND_TX", "connected">>, <<"RX", "BOUND_RX", "connected">>,
      <<"TX", "BOUND_TRX", "connected">>, <<"TRX", "CLOSED", "lost">> }

\* lines 259-283 read as: delivery report, then USSD, then multipart
AfterDeclinedUssdFirst(step) ==
    CASE step = "handle_delivery_report_pdu" -> "handle_ussd_pdu"
      [] step = "handle_ussd_pdu" -> "handle_multipart_pdu"
      [] step = "handle_multipart_pdu" -> "decode_pdus"
      [] step = "decode_pdus" -> "handle_delivery_report_content"
      [] step = "handle_delivery_report_content" -> "handle_short_message_pdu"
      [] step = "handle_short_message_pdu" -> "done"

\* lines 259-283: the call handle_deliver_sm makes after the call `step`
\* has reported not handled (for decode_pdus: after it gave only unicode
\* parts); "done" when the handler returns
AfterDeclined(step) ==
    CASE step = "handle_delivery_report_pdu" -> "handle_multipart_pdu"
      [] step = "handle_multipart_pdu" -> "handle_ussd_pdu"
      [] step = "handle_ussd_pdu" -> "decode_pdus"
      [] step = "decode_pdus" -> "handle_delivery_report_content"
      [] step = "handle_delivery_report_content" -> "handle_short_message_pdu"
      [] step = "handle_short_message_pdu" -> "done"

\* the processor methods handle_deliver_sm awaits (decode_pdus, line 271, is
\* called without yield)
AwaitedSteps ==
    {"handle_delivery_report_pdu", "handle_multipart_pdu", "handle_ussd_pdu",
     "handle_delivery_report_content", "handle_short_message_pdu"}

\* lines 243-259: the dispatcher enters handle_deliver_sm: the two checks,
\* the deliver_sm_resp, and the first processor call
HandleDeliverSm ==
    /\ dlv.pc = "queued"
    /\ dlv' = IF esme.state \notin DeliverStates
                 THEN [dlv EXCEPT !.pc = "done", !.at = esme.state]
              ELSE IF dlv.status # "ESME_ROK"
                 THEN [dlv EXCEPT !.pc = "done", !.at = esme.state]
              ELSE [dlv EXCEPT !.at = esme.state,
                               !.log = <<Sent("deliver_sm_resp", dlv.seq),
                                         Called("handle_delivery_report_pdu")>>,
                               !.pc = "handle_delivery_report_pdu"]
    /\ UNCHANGED <<mp, ussd, seqVars, sessVars, framerVars, submitVars>>

\* lines 271-278: decode_pdus gives its parts: not all unicode, and the
\* handler returns; all unicode, and it calls handle_delivery_report_content
DecodePdus(d, decoded) ==
    LET d1 == [d EXCEPT !.log = Append(@, Called("decode_pdus")),
                        !.results = Append(@, IF decoded THEN "decoded"
                                                         ELSE "undecoded")]
        next == AfterDeclined("decode_pdus")
    IN  IF decoded
           THEN [d1 EXCEPT !.log = Append(@, Called(next)), !.pc = next]
           ELSE [d1 EXCEPT !.pc = "done"]

\* lines 259-283: the processor call the handler awaits returns was_x: true,
\* and the handler returns; false, and it makes its next call
ProcessorReturns(handled, decoded) ==
    /\ dlv.pc \in AwaitedSteps
    /\ LET d1 == [dlv EXCEPT !.results = Append(@, IF handled THEN "handled"
                                                              ELSE "declined")]
           next == AfterDeclined(dlv.pc)
       IN  dlv' = IF handled \/ next = "done"
                     THEN [d1 EXCEPT !.pc = "done"]
                  ELSE IF next = "decode_pdus"
                     THEN DecodePdus(d1, decoded)
                  ELSE [d1 EXCEPT !.log = Append(@, Called(next)), !.pc = next]
    /\ UNCHANGED <<mp, ussd, seqVars, sessVars, framerVars, submitVars>>

\* the processor call the handler awaits fails: the exception ends the handler
ProcessorRaises ==
    /\ dlv.pc \in AwaitedSteps
    /\ dlv' = [dlv EXCEPT !.results = Append(@, "raised"), !.pc = "raised"]
    /\ UNCHANGED <<mp, ussd, seqVars, sessVars, framerVars, submitVars>>

\* lines 176-181: the transport is lost while the frame is queued or its
\* handler suspended
DeliverConnectionLost ==
    /\ esme.transport = "connected"
    /\ esme' = connectionLost([esme EXCEPT !.transport = "lost"])
    /\ UNCHANGED <<role, deadline, npdus, nticks, seqVars, framerVars,
                   submitVars, pduVars>>

(***************************************************************************)
(* submit_sm of one message, with the multipart splitting.  A message is a *)
(* sequence of bytes.  mp holds the configuration (sar, udh: the           *)
(* send_multipart_sar and send_multipart_udh options), the short_message   *)
(* given, the position of the call (pc: "new"; "split" in the while loop   *)
(* that chops the message; "segment" while the _submit_sm of segment i     *)
(* awaits get_next_seq; "done"; "raised"), the mode chosen ("sar", "udh"   *)
(* or "single"), the rest of the message to chop, split_msg and ref_num,   *)
(* submit_sm PDUs sent in order, and sequence_numbers and the value        *)
(* returned.                                                               *)
(***************************************************************************)
\* line 19
GSM_MAX_SMS_BYTES == 140

\* the largest argument chr() takes (line 425): chr(256) raises ValueError
MAX_CHR == 255

\* lines 382, 409: payload_length
payload_length == GSM_MAX_SMS_BYTES - 10

\* message[:n] and message[n:] (lines 384-385, 411-412): a slice ends at
\* the end of the string
Take(message, n) == SubSeq(message, 1, IF Len(message) < n THEN Len(message) ELSE n)

Drop(message, n) == SubSeq(message, n + 1, Len(message))

\* lines 391-395 with segment_seqnum 1 on every segment
SarParamsFirst(ref, total, seqnum) ==
    [set |-> TRUE, msg_ref_num |-> ref, total_segments |-> total,
     segment_seqnum |-> 1]

\* lines 391-395: sar_params; absent (line 351: None) in the other modes
SarParams(ref, total, seqnum) ==
    [set |-> TRUE, msg_ref_num |-> ref, total_segments |-> total,
     segment_seqnum |-> seqnum]

NoSarParams == [set |-> FALSE, msg_ref_num |-> 0, total_segments |-> 0,
                segment_seqnum |-> 0]

\* lines 424-425 with the segment count left out of the header
UdhWithoutCount(ref, total, seqnum) ==
    [raised |-> ref > MAX_CHR \/ total > MAX_CHR \/ seqnum > MAX_CHR,
     udh |-> <<5, 0, 3, ref, seqnum>>]

\* lines 424-425: '\05\00\03%s%s%s' % (chr(ref_num), chr(len(split_msg)),
\* chr(i + 1)); chr raises on a number above 255
Udh(ref, total, seqnum) ==
    [raised |-> ref > MAX_CHR \/ total > MAX_CHR \/ seqnum > MAX_CHR,
     udh |-> <<5, 0, 3, ref, total, seqnum>>]

\* lines 356-366: the submit_sm PDU _submit_sm builds
SubmitSmPdu(n, esm_class, short_message, sar) ==
    [sequence_number |-> n, esm_class |-> esm_class,
     short_message |-> short_message, sar |-> sar]

\* byte i of the messages of this model
ByteAt(i) == (i * 7) % 251

Message(n) == [i \in 1..n |-> ByteAt(i)]

\* the lengths of the messages of this model: at and just above
\* GSM_MAX_SMS_BYTES, at and just above each multiple of the payload length
\* up to MaxSegments, and at and just above MAX_CHR payloads
MessageLengths ==
    {GSM_MAX_SMS_BYTES, GSM_MAX_SMS_BYTES + 1}
    \cup {k * payload_length : k \in 2..MaxSegments}
    \cup {k * payload_length + 1 : k \in 2..MaxSegments}
    \cup {MAX_CHR * payload_length, MAX_CHR * payload_length + 1}

\* the values of randint(1, 255) (lines 386, 413) tried
RefNums == {1, MAX_CHR}

NewMultipart(sar, udh, message) ==
    [sar |-> sar, udh |-> udh, message |-> message, pc |-> "new",
     mode |-> "none", rest |-> <<>>, split_msg |-> <<>>, ref_num |-> 0, i |-> 0,
     sent |-> <<>>, sequence_numbers |-> <<>>, ret |-> NoValue]

\* lines 415-427, 388-396: the loop of _submit_multipart_udh or
\* _submit_multipart_sar reaches segment i: the header is built (and chr may
\* raise), then _submit_sm awaits get_next_seq
AtSegment(m, i) ==
    IF m.mode = "udh" /\ Udh(m.ref_num, Len(m.split_msg), i).raised
       THEN [m EXCEPT !.pc = "raised"]
       ELSE [m EXCEPT !.pc = "segment", !.i = i]

\* lines 313-343 and 374-382 or 402-409: submit_sm up to the while loop of
\* the multipart method it chooses, or up to the get_next_seq of _submit_sm
SubmitLong ==
    /\ mp.pc = "new"
    /\ mp' = IF esme.state \notin SendStates
                THEN [mp EXCEPT !.pc = "done", !.ret = IntValue(0)]
             ELSE IF Len(mp.message) > GSM_MAX_SMS_BYTES /\ mp.sar
                THEN [mp EXCEPT !.mode = "sar", !.pc = "split",
                                !.rest = mp.message]
             ELSE IF Len(mp.message) > GSM_MAX_SMS_BYTES /\ mp.udh
                THEN [mp EXCEPT !.mode = "udh", !.pc = "split",
                                !.rest = mp.message]
             ELSE AtSegment([mp EXCEPT !.mode = "single",
                                !.split_msg = <<mp.message>>], 1)
    /\ UNCHANGED <<dlv, ussd, seqVars, sessVars, framerVars, submitVars>>

\* lines 383-386, 410-413: one turn of the while loop (rest is its variable
\* message); when message is empty, ref_num is drawn and the for loop
\* reaches its first segment
ChopStep ==
    /\ mp.pc = "split"
    /\ IF mp.rest # <<>>
          THEN mp' = [mp EXCEPT !.split_msg = Append(@, Take(mp.rest, payload_length)),
                                !.rest = Drop(mp.rest, payload_length)]
          ELSE \E ref \in RefNums : mp' = AtSegment([mp EXCEPT !.ref_num = ref], 1)
    /\ UNCHANGED <<dlv, ussd, seqVars, sessVars, framerVars, submitVars>>

\* lines 349-370 for segment i, and the loop's next turn: get_next_seq
\* returns (its incr is below 0xFFFF0000), the PDU is built and sent,
\* push_unacked adds the sequence number to the ledger, and the caller
\* either goes on to the next segment or returns the sequence numbers
SubmitSegment ==
    /\ mp.pc = "segment"
    /\ counter' = RedisIncr(counter)
    /\ unacked' = RedisLpush(unacked, counter'[1])
    /\ esme' = SendPdu(esme, "submit_sm")
    /\ LET i == mp.i
           total == Len(mp.split_msg)
           msg == mp.split_msg[i]
           pdu == CASE mp.mode = "sar" ->
                         SubmitSmPdu(counter'[1], 0, msg,
                                     SarParams(mp.ref_num, total, i))
                    [] mp.mode = "udh" ->
                         SubmitSmPdu(counter'[1], 64,
                                     Udh(mp.ref_num, total, i).udh \o msg,
                                     NoSarParams)
                    [] OTHER -> SubmitSmPdu(counter'[1], 0, msg, NoSarParams)
           m1 == [mp EXCEPT !.sent = Append(@, pdu),
                            !.sequence_numbers = Append(@, counter'[1])]
       IN  mp' = IF i < total
                    THEN AtSegment(m1, i + 1)
                    ELSE [m1 EXCEPT !.pc = "done",
                                    !.ret = ListValue(m1.sequence_numbers)]
    /\ UNCHANGED <<dlv, ussd, wrapLock, apc, aseq, alocked, ncalls, seqLog,
                   retVals, role, deadline, npdus, nticks, framerVars, pipe,
                   subs, submitted, answered, rqueue, rpc, rcur, resps, early>>

(***************************************************************************)
(* update_ussd_pdu.  A string is a sequence of one-character strings.      *)
(* ussd holds the arguments _submit_sm takes from its pdu_params           *)
(* (message_type, continue_session, session_info: given is false for       *)
(* None), the position of the call and the optional parameters set on the  *)
(* PDU (<<>> for a parameter that is not set).                             *)
(***************************************************************************)
\* the digits "%x" writes, by value
LowerHex == <<"0", "1", "2", "3", "4", "5", "6", "7", "8", "9", "a", "b", "c",
              "d", "e", "f">>

\* the digits int(s, 16) also reads
UpperHex == <<"0", "1", "2", "3", "4", "5", "6", "7", "8", "9", "A", "B", "C",
              "D", "E", "F">>

\* the value of one hex digit
HexValue(ch) ==
    IF \E v \in 1..16 : LowerHex[v] = ch
       THEN (CHOOSE v \in 1..16 : LowerHex[v] = ch) - 1
       ELSE (CHOOSE v \in 1..16 : UpperHex[v] = ch) - 1

\* int(s, 16) (line 25) of a string of hex digits
RECURSIVE IntBase16(_)
IntBase16(s) ==
    IF s = <<>> THEN 0
    ELSE IntBase16(SubSeq(s, 1, Len(s) - 1)) * 16 + HexValue(s[Len(s)])

\* "%x" % n: the hex digits of n, no leading zeros, "0" for 0
RECURSIVE FormatHex(_)
FormatHex(n) ==
    IF n < 16 THEN <<LowerHex[n + 1]>>
    ELSE Append(FormatHex(n \div 16), LowerHex[(n % 16) + 1])

\* "%04x" % n (line 25): "%x" padded with zeros on the left to four
\* characters; a longer string is left as it is
RECURSIVE PadZero(_, _)
PadZero(s, width) == IF Len(s) >= width THEN s ELSE PadZero(<<"0">> \o s, width)

FormatHex04(n) == PadZero(FormatHex(n), 4)

\* line 25 with 1 added whatever continue_session is
AlwaysOne(continue_session) == 1

\* int(not continue_session) (line 25)
IntNot(continue_session) == IF continue_session THEN 0 ELSE 1

NoParams == [ussd_service_op |-> <<>>, its_session_info |-> <<>>]

\* lines 22-28: update_ussd_pdu: the optional parameters it sets
update_ussd_pdu(continue_session, given, session_info) ==
    LET s == IF ~given THEN <<"0", "0", "0", "0">> ELSE session_info
    IN  [ussd_service_op |-> <<"0", "2">>,
         its_session_info |->
             FormatHex04(IntBase16(s) + IntNot(continue_session))]

\* the session_info strings of this model: four hex digits, among them
\* 0000, 0001, fffe, ffff and strings with upper-case digits
SessionInfos ==
    {<<a, b, c, d>> : a \in {"0", "f", "F"}, b \in {"0", "f"}, c \in {"0", "a"},
                      d \in {LowerHex[v] : v \in 1..16} \cup {"E", "F"}}

\* the arguments of the calls of this model
UssdCalls ==
    {[message_type |-> t, continue_session |-> c, given |-> TRUE,
      session_info |-> s, pc |-> "new", params |-> NoParams] :
        t \in {"sms", "ussd"}, c \in BOOLEAN, s \in SessionInfos}
    \cup {[message_type |-> "ussd", continue_session |-> c, given |-> FALSE,
           session_info |-> <<>>, pc |-> "new", params |-> NoParams] :
             c \in BOOLEAN}

\* lines 356-358: _submit_sm builds the PDU and, for a USSD message,
\* annotates it
UpdateUssdPdu ==
    /\ ussd.pc = "new"
    /\ ussd' = IF ussd.message_type = "ussd"
                  THEN [ussd EXCEPT !.pc = "done",
                                    !.params = update_ussd_pdu(
                                        ussd.continue_session, ussd.given,
                                        ussd.session_info)]
                  ELSE [ussd EXCEPT !.pc = "done"]
    /\ UNCHANGED <<dlv, mp, seqVars, sessVars, framerVars, submitVars>>

(***************************************************************************)
(* The framer on arbitrary bytes: streams whose first four bytes give a    *)
(* command_length of 0, of less than 16, of 16 or more, or of more than    *)
(* the stream holds.  dataReceived and pop_data are as above.  What        *)
(* handle_data does with a frame that is no PDU is decided by unpack_pdu,  *)
(* which is not part of this source: the dispatcher may end with an        *)
(* exception, suspend in a handler, or end the handler and take the next   *)
(* frame.  The put of line 187 returns in each case (the dispatcher's      *)
(* exception ends in its own Deferred).                                    *)
(***************************************************************************)
\* sixteen bytes whose first four encode n (below 256)
RawHeader(n) == <<0, 0, 0, n, 0, 0, 0, 21, 0, 0, 0, 0, 0, 0, 0, 1>>

\* the values of command_length in the streams of this model
RawLengths == {0, 1, 15, 16, 17, 20}

\* the bytes that follow the first sixteen
RawTails == {<<>>, <<7>>, <<7, 8, 9, 10>>, RawHeader(16), RawHeader(0)}

RawStreams == {RawHeader(n) \o tail : n \in RawLengths, tail \in RawTails}

\* the states a dispatcher can be left in by a frame it has taken
DispatcherOutcomes == {"get", "handling", "dead"}

\* lines 185-188: one pop_data of dataReceived and, if it gave a frame (any
\* value but None, the empty string included), the put; the model follows
\* the loop for at most MaxPops frames
RawPopStep ==
    /\ fpc = "loop"
    /\ Len(frames) < MaxPops
    /\ LET r == pop_data(datastream)
       IN  IF r.data = <<>>
              THEN /\ fpc' = "idle"
                   /\ cut' = (cut \/ datastream # <<>>)
                   /\ UNCHANGED <<datastream, frames, fqueue, fhandled, fdsp>>
              ELSE /\ fpc' = "loop"
                   /\ UNCHANGED cut
                   /\ datastream' = r.datastream
                   /\ frames' = Append(frames, r.data[1])
                   /\ IF fdsp = "get"
                         THEN /\ fhandled' = Append(fhandled, r.data[1])
                              /\ fdsp' \in DispatcherOutcomes
                              /\ UNCHANGED fqueue
                         ELSE /\ fqueue' = Append(fqueue, r.data[1])
                              /\ UNCHANGED <<fhandled, fdsp>>
    /\ UNCHANGED <<pdus, stream, seqVars, sessVars, submitVars, pduVars>>

\* lines 145-146: the suspended handler ends; the dispatcher takes the next
\* frame of the queue, if there is one
RawHandlerEnds ==
    /\ fpc = "idle"
    /\ fdsp = "handling"
    /\ IF fqueue = <<>>
          THEN /\ fdsp' \in {"get", "dead"}
               /\ UNCHANGED <<fqueue, fhandled>>
          ELSE \/ /\ fdsp' = "dead"
                  /\ UNCHANGED <<fqueue, fhandled>>
               \/ /\ fhandled' = Append(fhandled, Head(fqueue))
                  /\ fqueue' = Tail(fqueue)
                  /\ fdsp' \in {"handling", "dead"}
    /\ UNCHANGED <<pdus, stream, datastream, fpc, frames, cut, seqVars,
                   sessVars, submitVars, pduVars>>

(***************************************************************************)
(* The store's content when the sessions start: a fresh store; the counter *)
(* one short of 0xFFFF0000; and the counter one short of 0xFFFFFFFF with   *)
(* the lock key present with its expiry running: _reset_seq_counter never  *)
(* deletes the lock key, so for 10 s after a setnx (by a resetter between  *)
(* its get and its delete, or one that has crashed) every get_next_seq     *)
(* only increments the counter.                                            *)
(***************************************************************************)
StoreAtStart ==
    { <<DeletedCounter, "absent">>,
      << <<Num(65534, 65535)>>, "absent" >>,
      << <<Num(65535, 65534)>>, "ttl" >> }


\* the allocator's variables while another specification runs
SeqParked ==
    /\ counter = DeletedCounter /\ wrapLock = "absent"
    /\ apc = [a \in Allocs |-> "idle"]
    /\ aseq = [a \in Allocs |-> Num(0, 0)]
    /\ alocked = [a \in Allocs |-> FALSE]
    /\ ncalls = 0
    /\ seqLog = <<>>
    /\ retVals = {}

\* the session's variables while another specification runs
SessParked ==
    /\ role = "TRX"
    /\ esme = EsmeInit
    /\ deadline = "unset"
    /\ npdus = 0
    /\ nticks = 0

\* the framer's variables while another specification runs
FramerParked ==
    /\ pdus = <<>>
    /\ stream = <<>>
    /\ datastream = <<>>
    /\ fpc = "idle"
    /\ frames = <<>>
    /\ fqueue = <<>>
    /\ fhandled = <<>>
    /\ fdsp = "get"
    /\ cut = FALSE

\* the submit variables while another specification runs
SubmitParked ==
    /\ unacked = <<>>
    /\ pipe = <<>>
    /\ subs = [c \in Submits |-> NewSub]
    /\ submitted = <<>>
    /\ answered = {}
    /\ rqueue = <<>>
    /\ rpc = "get"
    /\ rcur = Num(0, 0)
    /\ resps = <<>>
    /\ early = FALSE

\* the PDU-content variables while another specification runs
DeliverParked == dlv = NewDeliver("ESME_ROK", 1)

MultipartParked == mp = NewMultipart(FALSE, FALSE, <<>>)

UssdParked ==
    ussd = [message_type |-> "sms", continue_session |-> TRUE, given |-> FALSE,
            session_info |-> <<>>, pc |-> "new", params |-> NoParams]

PduParked == DeliverParked /\ MultipartParked /\ UssdParked

SeqInit ==
    /\ SessParked
    /\ FramerParked
    /\ SubmitParked
    /\ PduParked
    /\ \E s \in StoreAtStart : counter = s[1] /\ wrapLock = s[2]
    /\ apc = [a \in Allocs |-> "idle"]
    /\ aseq = [a \in Allocs |-> Num(0, 0)]
    /\ alocked = [a \in Allocs |-> FALSE]
    /\ ncalls = 0
    /\ seqLog = <<>>
    /\ retVals = {}

SeqNext ==
    \/ \E a \in Allocs : GetNextSeqIncr(a)
    \/ \E a \in Allocs : ResetSetnx(a)
    \/ \E a \in Allocs : ResetTtl(a)
    \/ \E a \in Allocs : ResetExpire(a)
    \/ \E a \in Allocs : ResetGet(a)
    \/ \E a \in Allocs : ResetDelete(a)
    \/ LockExpires

SeqSpec == SeqInit /\ [][SeqNext]_vars

Init ==
    /\ role \in Roles
    /\ esme = EsmeInit
    /\ deadline = "unset"
    /\ npdus = 0
    /\ nticks = 0
    /\ SeqParked
    /\ FramerParked
    /\ SubmitParked
    /\ PduParked

Next ==
    \/ ConnectionMade
    \/ ConnectionMadeResume
    \/ BindTimeoutElapses
    \/ ConnectionLost
    \/ DataReceived
    \/ HandlerResume
    \/ HandlerRaises
    \/ LoopTick
    \/ EnquireLinkResume

Spec == Init /\ [][Next]_vars

FramerInit ==
    /\ pdus \in PduLists(MaxFrames)
    /\ stream = Concat(pdus)
    /\ datastream = <<>>
    /\ fpc = "idle"
    /\ frames = <<>>
    /\ fqueue = <<>>
    /\ fhandled = <<>>
    /\ fdsp = "get"
    /\ cut = FALSE
    /\ SeqParked
    /\ SessParked
    /\ SubmitParked
    /\ PduParked

FramerNext ==
    \/ \E k \in 1..Len(stream) : FeedData(k)
    \/ PopStep
    \/ FrameHandlerResume
    \/ FrameHandlerRaises

FramerSpec == FramerInit /\ [][FramerNext]_vars

SubmitInit ==
    /\ \E x \in SessionsAtSubmit :
          /\ role = x[1]
          /\ esme = [EsmeInit EXCEPT !.state = x[2], !.transport = x[3]]
    /\ deadline = "unset"
    /\ npdus = 0
    /\ nticks = 0
    /\ SubmitParked
    /\ SeqParked
    /\ FramerParked
    /\ PduParked

SubmitNext ==
    \/ \E c \in Submits : SubmitSm(c)
    \/ ExecSubmitIncr
    \/ ExecLpush
    \/ ExecSubmitLlen
    \/ SubmitSmRespReceived
    \/ ExecLpop
    \/ ExecHandlerLlen
    \/ SubmitSmRespHandled

SubmitSpec == SubmitInit /\ [][SubmitNext]_vars

DeliverInit ==
    /\ \E x \in SessionsAtDeliver :
          /\ role = x[1]
          /\ esme = [EsmeInit EXCEPT !.state = x[2], !.transport = x[3]]
    /\ deadline = "unset"
    /\ npdus = 0
    /\ nticks = 0
    /\ dlv \in DeliverPdus
    /\ MultipartParked
    /\ UssdParked
    /\ SeqParked
    /\ FramerParked
    /\ SubmitParked

DeliverNext ==
    \/ HandleDeliverSm
    \/ \E handled, decoded \in BOOLEAN : ProcessorReturns(handled, decoded)
    \/ ProcessorRaises
    \/ DeliverConnectionLost

DeliverSpec == DeliverInit /\ [][DeliverNext]_vars

MultipartInit ==
    /\ \E x \in SessionsAtSubmit :
          /\ role = x[1]
          /\ esme = [EsmeInit EXCEPT !.state = x[2], !.transport = x[3]]
    /\ deadline = "unset"
    /\ npdus = 0
    /\ nticks = 0
    /\ \E sar, udh \in BOOLEAN, n \in MessageLengths :
          mp = NewMultipart(sar, udh, Message(n))
    /\ DeliverParked
    /\ UssdParked
    /\ SeqParked
    /\ FramerParked
    /\ SubmitParked

MultipartNext ==
    \/ SubmitLong
    \/ ChopStep
    \/ SubmitSegment

MultipartSpec == MultipartInit /\ [][MultipartNext]_vars

UssdInit ==
    /\ ussd \in UssdCalls
    /\ DeliverParked
    /\ MultipartParked
    /\ SeqParked
    /\ SessParked
    /\ FramerParked
    /\ SubmitParked

UssdNext == UpdateUssdPdu

UssdSpec == UssdInit /\ [][UssdNext]_vars

RawFramerInit ==
    /\ \E s \in RawStreams : pdus = <<s>> /\ stream = s
    /\ datastream = <<>>
    /\ fpc = "idle"
    /\ frames = <<>>
    /\ fqueue = <<>>
    /\ fhandled = <<>>
    /\ fdsp = "get"
    /\ cut = FALSE
    /\ SeqParked
    /\ SessParked
    /\ SubmitParked
    /\ PduParked

RawFramerNext ==
    \/ \E k \in 1..Len(stream) : FeedData(k)
    \/ RawPopStep
    \/ RawHandlerEnds

RawFramerSpec == RawFramerInit /\ [][RawFramerNext]_vars

(***************************************************************************)
(* Claims about the allocator (checked under SeqSpec).                     *)
(***************************************************************************)
IsIncr(i) == seqLog[i].op = "incr"

NoDelBetween(i, j) == \A k \in i..j : seqLog[k].op # "del"

\* C1: the values returned by incr, in the order of the incrs, are strictly
\* increasing between two consecutive deletions of the counter key, and the
\* first value after a deletion is 1, whatever the interleaving of the
\* sessions' store calls.
C1_IncreasingBetweenDeletions ==
    /\ \A i, j \in 1..Len(seqLog) :
          (i < j /\ IsIncr(i) /\ IsIncr(j) /\ NoDelBetween(i, j))
             => NumLt(seqLog[i].val, seqLog[j].val)
    /\ \A j \in 2..Len(seqLog) :
          (IsIncr(j) /\ ~IsIncr(j - 1)) => seqLog[j].val = MIN_SEQ

\* a deletion, the value 1 after it, and a larger value after that
C1_Witness ==
    \E i \in 1..Len(seqLog) :
        /\ i + 2 <= Len(seqLog)
        /\ ~IsIncr(i)
        /\ IsIncr(i + 1) /\ seqLog[i + 1].val = MIN_SEQ
        /\ IsIncr(i + 2) /\ NumLt(MIN_SEQ, seqLog[i + 2].val)

InSeqRange(v) == NumGeq(v, MIN_SEQ) /\ NumGeq(MAX_SEQ, v)

\* C2: every value get_next_seq returns lies in [1, 0xFFFFFFFF], and a call
\* that is in its reset attempt got an incr result at or above 0xFFFF0000,
\* which it still returns.
C2_ReturnedInRange ==
    /\ \A v \in retVals : InSeqRange(v)
    /\ \A a \in Allocs : apc[a] # "idle" => NumGeq(aseq[a], WRAP_AT)

(***************************************************************************)
(* Claims about the reset of the counter (checked under SeqSpec).          *)
(***************************************************************************)
IsWrapIncr(i) == IsIncr(i) /\ NumGeq(seqLog[i].val, WRAP_AT)

\* C17: a deletion of the counter key never follows an incr that returned a
\* value below 0xFFFF0000 (no reset deletes a counter that has restarted);
\* between two deletions an incr has returned a value at or above 0xFFFF0000
\* (no two resets zero the counter for the same wrap); and a value below
\* 0xFFFF0000 is returned by two incrs only with such an incr between them.
C17_NoDeleteAfterRestart ==
    /\ \A i \in 2..Len(seqLog) :
          (~IsIncr(i) /\ IsIncr(i - 1)) => IsWrapIncr(i - 1)
    /\ \A i, j \in 1..Len(seqLog) :
          (i < j /\ ~IsIncr(i) /\ ~IsIncr(j)) => \E k \in i..j : IsWrapIncr(k)
    /\ \A i, j \in 1..Len(seqLog) :
          (i < j /\ IsIncr(i) /\ IsIncr(j) /\ seqLog[i].val = seqLog[j].val
              /\ ~IsWrapIncr(i))
             => \E k \in i..j : IsWrapIncr(k)

\* the steps of a reset attempt after its setnx
AfterSetnx == {"ttl", "expire", "get", "delete"}

\* C18 as stated: a step of an allocator whose setnx failed changes neither
\* the lock key nor the counter key.
C18_FailedSetnxChangesNothing ==
    [][\A a \in Allocs :
          (~alocked[a] /\ apc[a] \in AfterSetnx /\ apc'[a] # apc[a])
             => (wrapLock' = wrapLock /\ counter' = counter)]_vars

\* C18, amended: an allocator whose setnx failed never reads or deletes the
\* counter key and never creates or removes the lock key; the one change it
\* can make is to give the lock key its expiry when the key has none (lines
\* 104-106 come before the check of locked, line 108).
C18_FailedSetnxOnlySetsExpiry ==
    [][\A a \in Allocs :
          (~alocked[a] /\ apc[a] \in AfterSetnx /\ apc'[a] # apc[a])
             => /\ counter' = counter
                /\ apc'[a] \notin {"get", "delete"}
                /\ wrapLock' # wrapLock
                      => (wrapLock = "no_ttl" /\ wrapLock' = "ttl")]_vars

\* an allocator whose setnx failed is about to set the expiry of a lock key
\* another allocator holds
C18_Witness ==
    \E a, b \in Allocs :
        /\ ~alocked[a] /\ apc[a] = "expire"
        /\ alocked[b] /\ apc[b] \in AfterSetnx
        /\ wrapLock = "no_ttl"

(***************************************************************************)
(* Claims about the session (checked under Spec).                          *)
(***************************************************************************)
\* C3: when smpp_bind_timeout elapses after the bind was sent and the
\* session is not in the bound state of its own role, the transport does not
\* stay connected: the session closes it (or it is already closing or lost).
C3_TimeoutClosesUnbound ==
    [][(deadline = "pending" /\ deadline' = "passed"
            /\ esme.state # CONNECTED_STATE(role))
          => esme'.transport # "connected"]_vars

\* C4: after connectionLost the bind-timeout timer is not armed, no
\* link-check loop is running and the disconnect callback has been invoked
\* exactly once.
C4_QuietAfterLoss ==
    esme.transport = "lost"
        => /\ esme.lose_conn # "armed"
           /\ RunningLoops(esme) = 0
           /\ esme.disconnects = 1

\* C5: a session is never in a BOUND_* state of another role, and when a bind
\* response handler has accepted ESME_ROK (it has got as far as the connect
\* callback) the state is the bound state of the session's role, the
\* link-check loop is running and the bind-timeout timer is not armed.
C5_BoundStateOfOwnRole ==
    [][/\ esme'.state \in BoundStates => esme'.state = CONNECTED_STATE(role)
       /\ esme'.connects # esme.connects
             => /\ esme'.state = CONNECTED_STATE(role)
                /\ esme'.lc_enquire = "running"
                /\ esme'.lose_conn # "armed"]_vars

\* C7: at most one PDU handler is active on the session at any time, and one
\* is active exactly when the dispatcher is inside handle_data: it takes the
\* next frame only when the handler of the current one has ended.
C7_OneHandlerAtATime ==
    /\ esme.active \in {0, 1}
    /\ esme.active = 1 <=> esme.dsp = "handling"
    /\ esme.dsp = "get" => esme.queue = <<>>

\* frames have arrived while a handler is suspended
C7_Witness ==
    /\ esme.dsp = "handling"
    /\ esme.active = 1
    /\ Len(esme.queue) >= 2

\* C8: a failure while handling one PDU is absorbed: the dispatcher does not
\* end, and frames are queued only while it is busy with a handler.
C8_FailureAbsorbed ==
    /\ esme.dsp # "dead"
    /\ esme.queue # <<>> => esme.dsp = "handling"

\* C19: once the transport is lost the state stays CLOSED: no step (the
\* handler of a frame that was queued before the loss, in particular) moves
\* it out of CLOSED, starts a link-check loop or invokes the connect callback.
C19_ClosedAfterLoss ==
    [][esme.transport = "lost"
          => /\ esme'.state = "CLOSED"
             /\ RunningLoops(esme') <= RunningLoops(esme)
             /\ esme'.connects = esme.connects]_vars

\* C20: once the transport is lost the session writes no PDU: no step (an
\* enquire_link or a connectionMade resumed from get_next_seq, the handler of
\* a frame that was queued before the loss) adds to what the session has sent.
C20_NoWriteAfterLoss ==
    [][esme.transport = "lost" => esme'.sent = esme.sent]_vars

\* C21: a step in which the session, in a BOUND_* state and connected, handles
\* an unbind (it sends unbind_resp, and nothing else) leaves the state
\* UNBINDING and the transport closing.
C21_UnbindingUntilLoss ==
    [][(/\ esme.state \in BoundStates
        /\ esme.transport = "connected"
        /\ esme'.sent = Append(esme.sent, "unbind_resp"))
          => (esme'.state = "UNBINDING" /\ esme'.transport = "closing")]_vars

(***************************************************************************)
(* Claims about the framer (checked under FramerSpec).                     *)
(***************************************************************************)
IsPrefix(a, b) == Len(a) <= Len(b) /\ a = SubSeq(b, 1, Len(a))

C22_PopShortensBuffer ==
    [][frames' # frames
         => /\ Len(datastream') < Len(datastream)
            /\ Len(frames') <= Len(pdus[1]) - Len(stream')]_vars

(***************************************************************************)
(* Claims about submit_sm and the ledger (checked under SubmitSpec).       *)
(***************************************************************************)
\* C9: submit_sm called while the state is neither BOUND_TX nor BOUND_TRX
\* returns an empty list, allocates no sequence number, sends no PDU, leaves
\* the ledger unchanged and does not close the transport.
C9_UnboundSubmitReturnsEmptyList ==
    \A c \in Submits :
        (subs[c].pc = "done" /\ esme.state \notin SendStates)
           => /\ subs[c].ret = ListValue(<<>>)
              /\ counter = DeletedCounter
              /\ esme.sent = <<>>
              /\ unacked = <<>>
              /\ esme.transport # "closing"

AllSubmitsDone == \A c \in Submits : subs[c].pc = "done"

LedgerQuiet ==
    /\ AllSubmitsDone
    /\ \A i \in 1..Len(submitted) : submitted[i] \in answered
    /\ rqueue = <<>> /\ rpc = "get" /\ pipe = <<>>

\* C10: when every submit_sm sent has been answered by one submit_sm_resp and
\* neither a submit nor a handler is in flight, the ledger is empty; and at
\* any time the ledger holds no more entries than submits are unanswered or
\* have their response queued or in its handler.
C10_LedgerReturnsToZero ==
    /\ LedgerQuiet => Len(unacked) = 0
    /\ Len(unacked) <= Len(submitted) - Len(resps)

\* both submits sent and answered, one response taken by the dispatcher
\* while the lpush of its submit was still pending
C10_Witness ==
    /\ LedgerQuiet
    /\ Len(submitted) = MaxSubmits
    /\ Len(resps) = MaxSubmits
    /\ early

(***************************************************************************)
(* Claims about handle_deliver_sm (checked under DeliverSpec).             *)
(***************************************************************************)
\* C11: once the deliver_sm has been handled: if the state found was BOUND_RX
\* or BOUND_TRX and the PDU's status ESME_ROK, the first thing the handler did
\* was to send a deliver_sm_resp with the inbound sequence number, and all it
\* did after that were processor calls; otherwise it sent nothing and called
\* no processor.  Before it is handled nothing is sent or called.
C11_AckIffBoundAndOk ==
    /\ dlv.pc = "queued" => dlv.log = <<>>
    /\ dlv.pc # "queued" =>
          IF dlv.at \in {"BOUND_RX", "BOUND_TRX"} /\ dlv.status = "ESME_ROK"
             THEN /\ dlv.log # <<>>
                  /\ dlv.log[1] = Sent("deliver_sm_resp", dlv.seq)
                  /\ \A i \in 2..Len(dlv.log) : dlv.log[i].op = "call"
             ELSE dlv.log = <<>>

\* an acknowledged deliver_sm with sequence number 2 whose handler has called
\* two processor methods
C11_Witness ==
    /\ dlv.at = "BOUND_RX" /\ dlv.status = "ESME_ROK" /\ dlv.seq = 2
    /\ Len(dlv.log) = 3
    /\ dlv.log[3] = Called("handle_multipart_pdu")

PipelineOrder ==
    <<"handle_delivery_report_pdu", "handle_multipart_pdu", "handle_ussd_pdu",
      "decode_pdus", "handle_delivery_report_content",
      "handle_short_message_pdu">>

\* the processor methods called so far, in order
DeliverCalls ==
    [i \in 1..(IF dlv.log = <<>> THEN 0 ELSE Len(dlv.log) - 1) |-> dlv.log[i + 1].name]

\* C12: the processor methods called for a deliver_sm are the first few of
\* the fixed order; every call but the last reported not handled (decode_pdus:
\* gave only unicode parts); a call that reported handled, gave a part that is
\* not unicode, or failed, is the last one and the handler has ended; so
\* handle_short_message_pdu is called only after all the others declined and
\* all parts were unicode.
C12_FixedOrder ==
    /\ IsPrefix(DeliverCalls, PipelineOrder)
    /\ Len(dlv.results) \in {Len(DeliverCalls), Len(DeliverCalls) - 1}
    /\ \A i \in 1..Len(dlv.results) :
          /\ i < Len(DeliverCalls) => dlv.results[i] \in {"declined", "decoded"}
          /\ dlv.results[i] \in {"handled", "undecoded", "raised"}
                => (i = Len(DeliverCalls) /\ dlv.pc \in {"done", "raised"})
          /\ dlv.results[i] \in {"decoded", "undecoded"}
                <=> DeliverCalls[i] = "decode_pdus"
    /\ (\E i \in 1..Len(DeliverCalls) : DeliverCalls[i] = "handle_short_message_pdu")
          => /\ Len(DeliverCalls) = 6
             /\ dlv.results[4] = "decoded"
             /\ \A i \in {1, 2, 3, 5} : dlv.results[i] = "declined"

\* every step declined: all six methods were called and the handler has ended
C12_Witness ==
    /\ DeliverCalls = PipelineOrder
    /\ dlv.pc = "done"
    /\ Len(dlv.results) = 6

(***************************************************************************)
(* Claims about the multipart submit_sm (checked under MultipartSpec).     *)
(***************************************************************************)
CeilDiv(n, d) == (n + d - 1) \div d

\* the concatenation of ss[lo], ..., ss[hi]
RECURSIVE ConcatRange(_, _, _)
ConcatRange(ss, lo, hi) ==
    IF lo > hi THEN <<>>
    ELSE IF lo = hi THEN ss[lo]
    ELSE LET mid == (lo + hi) \div 2
         IN  ConcatRange(ss, lo, mid) \o ConcatRange(ss, mid + 1, hi)

\* the k-th run of 130 bytes of the input (the last one may be shorter)
InputChunk(k) ==
    SubSeq(mp.message, 130 * (k - 1) + 1,
           IF 130 * k < Len(mp.message) THEN 130 * k ELSE Len(mp.message))

MpFinished == mp.pc \in {"done", "raised"}

MpCalledBound == mp.pc # "new" /\ esme.state \in {"BOUND_TX", "BOUND_TRX"}

\* what the claim says of the k-th PDU sent, for SAR
SarSegmentAsClaimed(k) ==
    /\ mp.sent[k].sar.set
    /\ mp.sent[k].sar.msg_ref_num = mp.sent[1].sar.msg_ref_num
    /\ mp.sent[k].sar.msg_ref_num \in 1..255
    /\ mp.sent[k].sar.total_segments = CeilDiv(Len(mp.message), 130)
    /\ mp.sent[k].sar.segment_seqnum = k
    /\ mp.sent[k].short_message = InputChunk(k)

\* C13: with send_multipart_sar configured (whatever send_multipart_udh is),
\* in BOUND_TX or BOUND_TRX and for an input of N > 140 bytes: the PDU sent
\* last, and when the call has ended every PDU sent, carries the same
\* sar_msg_ref_num in 1..255, sar_total_segments = ceil(N/130) and
\* sar_segment_seqnum = its position in the sending order, and its
\* short_message is the input's run of 130 bytes of that position; when the
\* call has ended, ceil(N/130) PDUs were sent, the short_messages
\* concatenated give the input, and the value returned is the list of the
\* PDUs' sequence numbers.
C13_SarSegments ==
    (mp.sar /\ MpCalledBound /\ Len(mp.message) > 140) =>
       /\ mp.sent # <<>> => SarSegmentAsClaimed(Len(mp.sent))
       /\ MpFinished =>
             /\ \A k \in 1..Len(mp.sent) : SarSegmentAsClaimed(k)
             /\ Len(mp.sent) = CeilDiv(Len(mp.message), 130)
             /\ ConcatRange([k \in 1..Len(mp.sent) |-> mp.sent[k].short_message],
                            1, Len(mp.sent)) = mp.message
             /\ mp.ret = ListValue([k \in 1..Len(mp.sent) |->
                                      mp.sent[k].sequence_number])

\* a message of MaxSegments full payloads and one byte, sent with both options
\* configured, in MaxSegments + 1 segments
C13_Witness ==
    /\ mp.sar /\ mp.udh /\ MpCalledBound /\ mp.pc = "done"
    /\ Len(mp.message) = MaxSegments * 130 + 1
    /\ Len(mp.sent) = MaxSegments + 1
    /\ mp.sent[MaxSegments + 1].short_message = <<ByteAt(MaxSegments * 130 + 1)>>

\* what the claim says of the k-th PDU sent, for UDH
UdhSegmentAsClaimed(k) ==
    /\ mp.sent[k].esm_class = 64
    /\ Len(mp.sent[k].short_message) <= 140
    /\ mp.sent[k].short_message[4] \in 1..255
    /\ mp.sent[k].short_message =
          <<5, 0, 3, mp.sent[1].short_message[4],
            CeilDiv(Len(mp.message), 130), k>> \o InputChunk(k)

\* what the claim says of the PDU sent last and of the ended call, for UDH
UdhSegmentsAsClaimed ==
    /\ mp.sent # <<>> => UdhSegmentAsClaimed(Len(mp.sent))
    /\ MpFinished =>
          /\ \A k \in 1..Len(mp.sent) : UdhSegmentAsClaimed(k)
          /\ Len(mp.sent) = CeilDiv(Len(mp.message), 130)
          /\ ConcatRange([k \in 1..Len(mp.sent) |->
                            SubSeq(mp.sent[k].short_message, 7,
                                   Len(mp.sent[k].short_message))],
                         1, Len(mp.sent)) = mp.message

\* C14 as stated: with send_multipart_udh configured and send_multipart_sar
\* not, in BOUND_TX or BOUND_TRX and for an input of N > 140 bytes: every PDU
\* sent (checked for the last one sent, and for all when the call has ended)
\* has esm_class 0x40 and a short_message of at most 140 bytes made of
\* 05 00 03 <ref> <ceil(N/130)> <position> and the input's run of 130 bytes of
\* that position, with one ref in 1..255; when the call has ended,
\* ceil(N/130) PDUs were sent and the runs after the headers give the input.
C14_UdhSegments ==
    (mp.udh /\ ~mp.sar /\ MpCalledBound /\ Len(mp.message) > 140)
       => UdhSegmentsAsClaimed

\* C14, amended: the same for an input of 140 < N <= 255 * 130 bytes, whose
\* segment count fits the one byte the header has for it.
C14_UdhSegmentsUpTo255 ==
    (mp.udh /\ ~mp.sar /\ MpCalledBound /\ Len(mp.message) > 140
        /\ Len(mp.message) <= 255 * 130)
       => UdhSegmentsAsClaimed

\* a message of 255 full payloads sent in 255 segments with headers
C14_Witness ==
    /\ mp.udh /\ ~mp.sar /\ MpCalledBound /\ mp.pc = "done"
    /\ Len(mp.message) = 255 * 130
    /\ Len(mp.sent) = 255
    /\ SubSeq(mp.sent[255].short_message, 1, 6) = <<5, 0, 3, 255, 255, 255>>

(***************************************************************************)
(* Claims about update_ussd_pdu (checked under UssdSpec).                  *)
(***************************************************************************)
\* the four lower-case hex digits of a two-byte value
FourHexDigits(n) ==
    <<LowerHex[(n \div 4096) + 1], LowerHex[((n \div 256) % 16) + 1],
      LowerHex[((n \div 16) % 16) + 1], LowerHex[(n % 16) + 1]>>

UssdAnnotated == ussd.pc = "done" /\ ussd.message_type = "ussd"

\* C15: on a USSD PDU, ussd_service_op is set to 02; with continue_session
\* false and a session_info s whose low bit is unset, its_session_info is the
\* four lower-case hex digits of int(s, 16) | 1 (the value plus one); with
\* continue_session true it is the four hex digits of int(s, 16); without a
\* session_info it is what 0000 gives.
C15_UssdSessionInfo ==
    UssdAnnotated =>
       /\ ussd.params.ussd_service_op = <<"0", "2">>
       /\ (ussd.given /\ ~ussd.continue_session
              /\ IntBase16(ussd.session_info) % 2 = 0)
             => ussd.params.its_session_info =
                   FourHexDigits(IntBase16(ussd.session_info) + 1)
       /\ (ussd.given /\ ussd.continue_session)
             => ussd.params.its_session_info =
                   FourHexDigits(IntBase16(ussd.session_info))
       /\ ~ussd.given
             => ussd.params.its_session_info =
                   (IF ussd.continue_session THEN <<"0", "0", "0", "0">>
                                             ELSE <<"0", "0", "0", "1">>)

\* session_info FfaE with continue_session false gives ffaf
C15_Witness ==
    /\ UssdAnnotated
    /\ ussd.given /\ ~ussd.continue_session
    /\ ussd.session_info = <<"F", "f", "a", "E">>
    /\ ussd.params.its_session_info = <<"f", "f", "a", "f">>

\* C16: for every session_info of four hex digits and both values of
\* continue_session, its_session_info is four hex digits, and its low bit is
\* 1 exactly when continue_session is false.
C16_LowBitIsEndOfSession ==
    (UssdAnnotated /\ ussd.given) =>
       /\ Len(ussd.params.its_session_info) = 4
       /\ (IntBase16(ussd.params.its_session_info) % 2 = 1)
             <=> ~ussd.continue_session

====
